---- MODULE Spec2Model ----
(***************************************************************************)
(* Model of the PacketCapture controller: the informer event handlers and  *)
(* work queue (cmd/manager/main.go), the worker (pkg/controller) and the   *)
(* capture manager with its detached runTcpdump tasks (pkg/capture).       *)
(***************************************************************************)
EXTENDS Integers, Sequences, FiniteSets, TLC

VARIABLES
    index,      \* informer cache: key -> object (c.indexer)
    queue,      \* workqueue: FIFO of keys ready to be handed out
    dirty,      \* workqueue: keys added and not yet handed out
    processing, \* workqueue: keys handed out and not yet Done
    waiting,    \* workqueue: keys in rate-limited backoff (AddAfter)
    requeues,   \* rate limiter: per-key failure count (NumRequeues)
    wkey,       \* key the worker is processing, NoKey when blocked in Get
    captures,   \* cm.captures: key -> id of the cancel handle, 0 = no entry
    insts,      \* one record per started capture: ctx, goroutine and child
    files,      \* capture directory: artifact path -> id of its last writer
    nextUid,    \* next UID the API server assigns
    budget,     \* number of informer events still to be delivered
    last,       \* record of the worker's latest reconcile (history)
    stopped     \* stopCh is closed and Run has returned

vars == <<index, queue, dirty, processing, waiting, requeues, wkey,
          captures, insts, files, nextUid, budget, last, stopped>>

----------------------------------------------------------------------------
(* Bounds *)

\* informer events delivered in a run of Spec; SpecDeep delivers one more
MaxEvents == 3
\* informer events delivered in a run of SpecErr, after the initial list
MaxErrEvents == 1

\* Every start of a capture and every UID takes an event of its own, so
\* these two bound nothing that the event budget does not bound already.
MaxCaptures == MaxEvents + 1
MaxUid == MaxEvents + 1

(* Program constants *)

MaxRetries == 5

Namespaces == {"a", "b"}
Names == {"app"}
Keys == Namespaces \X Names
NoKey == <<"", "">>
\* pod.Status.ContainerStatuses: empty ("none"), a first ContainerID without
\* "://" such as the empty ID of a container not yet created ("bad"), or a
\* first ContainerID of the form containerd://<id> ("ok")
ContainerStates == {"none", "bad", "ok"}

\* the kubelet publishes the status list first and the container ID after
StatusRank(cs) == CASE cs = "none" -> 0 [] cs = "bad" -> 1 [] cs = "ok" -> 2
Ids == 1..MaxCaptures

----------------------------------------------------------------------------
(* Objects of the informer cache *)

Absent ==
    [kind |-> "none", ns |-> "", name |-> "", uid |-> 0,
     ann |-> FALSE, del |-> FALSE, cs |-> "none"]

Pod(k, uid, ann, del, cs) ==
    [kind |-> "pod", ns |-> k[1], name |-> k[2], uid |-> uid,
     ann |-> ann, del |-> del, cs |-> cs]

\* key := pod.Namespace + "/" + pod.Name
KeyOf(pod) == <<pod.ns, pod.name>>

\* parts := strings.Split(key, "/"); podName = parts[1]
PodNameOfKey(key) == key[2]

\* filepath.Join(CaptureDir, fmt.Sprintf("capture-%s.pcap", pod.Name))
PcapFile(podName) == <<"capture", podName>>

Paths == {PcapFile(n) : n \in Names}

\* filepath.Glob(CaptureDir/capture-<podName>.pcap*)
GlobMatches(path, podName) == path = PcapFile(podName)

NoInst ==
    [key |-> NoKey, pod |-> Absent, cancelled |-> FALSE,
     pc |-> "unused", child |-> "none", out |-> "none"]

NoLast == [key |-> NoKey, op |-> "none", err |-> FALSE, hit |-> FALSE]

\* The capture manager's state as one value, so that the manager's methods
\* compose the way the code calls them.
\* mu is cm.mu; underLock collects the blocking calls made while mu was held.
Manager(c, i, f) ==
    [captures |-> c, insts |-> i, files |-> f, mu |-> FALSE, underLock |-> {}]

\* cm.mu.Lock()
muLock(ms) == [ms EXCEPT !.mu = TRUE]

\* cm.mu.Unlock()
muUnlock(ms) == [ms EXCEPT !.mu = FALSE]

\* a blocking call (file system, /proc, child) made by the holder of ms
Blocking(ms, call) ==
    [ms EXCEPT !.underLock = IF ms.mu THEN @ \cup {call} ELSE @]

UsedIds == {i \in Ids : insts[i].pc /= "unused"}
FreshId == Cardinality(UsedIds) + 1

----------------------------------------------------------------------------
(* pkg/capture/manager.go *)

\* for _, f := range matches { os.Remove(f) }
cleanupFiles(fs, podName) ==
    [p \in Paths |-> IF GlobMatches(p, podName) THEN 0 ELSE fs[p]]

\* stop with cleanupFiles called outside the "if ok" block
stopAlwaysCleans(ms, key, podName) ==
    IF ms.captures[key] /= 0
    THEN Blocking([ms EXCEPT !.captures[key] = 0,
                             !.insts[ms.captures[key]].cancelled = TRUE,
                             !.files = cleanupFiles(ms.files, podName)],
                  "unlink")
    ELSE Blocking([ms EXCEPT !.files = cleanupFiles(ms.files, podName)],
                  "unlink")

\* if cancel, ok := cm.captures[key]; ok { cancel(); delete; cleanupFiles }
stop(ms, key, podName) ==
    IF ms.captures[key] /= 0
    THEN Blocking([ms EXCEPT !.captures[key] = 0,
                             !.insts[ms.captures[key]].cancelled = TRUE,
                             !.files = cleanupFiles(ms.files, podName)],
                  "unlink")
    ELSE ms

\* cm.mu.Lock(); defer cm.mu.Unlock(); cm.stop(key, podName)
StopCaptureByKey(ms, key) ==
    muUnlock(stop(muLock(ms), key, PodNameOfKey(key)))

\* 1. Start if annotation present and not running
StartsCapture(hasAnnotation, isRunning) == hasAnnotation /\ ~isRunning

\* 2. Stop if annotation removed and is running
StopsOnAnnotation(hasAnnotation, isRunning) == ~hasAnnotation /\ isRunning

\* 3. Stop if Pod is deleting
StopsOnDeletion(pod, isRunning) == pod.del /\ isRunning

\* the reservation and the go statement of SyncCapture
Reserve(ms, key, pod, id) ==
    [ms EXCEPT !.captures[key] = id,
               !.insts[id] =
                   [key |-> key, pod |-> pod, cancelled |-> FALSE,
                    pc |-> "start", child |-> "none", out |-> "none"]]

SyncCapture(ms, pod, id) ==
    LET key == KeyOf(pod)
        hasAnnotation == pod.ann
        ms0 == muLock(ms)
        isRunning == ms0.captures[key] /= 0
        ms1 == IF StartsCapture(hasAnnotation, isRunning)
               THEN Reserve(ms0, key, pod, id) ELSE ms0
        ms2 == IF StopsOnAnnotation(hasAnnotation, isRunning)
               THEN stop(ms1, key, pod.name) ELSE ms1
        ms3 == IF StopsOnDeletion(pod, isRunning)
               THEN stop(ms2, key, pod.name) ELSE ms2
    IN  muUnlock(ms3)

\* SyncCapture always ends with "return nil"
SyncCaptureErr(ms, pod) == FALSE

----------------------------------------------------------------------------
(* pkg/controller/controller.go *)

\* SyncOp with an absent object left alone
SyncOpIgnoresAbsent(obj, fail) ==
    IF fail THEN "error"
    ELSE IF obj.kind = "none" THEN "skip"
    ELSE IF obj.kind = "tombstone" THEN "stopByKey"
    ELSE IF obj.kind /= "pod" THEN "skip"
    ELSE "sync"

\* the branch syncHandler takes for what indexer.GetByKey returned
SyncOp(obj, fail) ==
    IF fail THEN "error"
    ELSE IF obj.kind = "none" THEN "stopByKey"
    ELSE IF obj.kind = "tombstone" THEN "stopByKey"
    ELSE IF obj.kind /= "pod" THEN "skip"
    ELSE "sync"

syncHandler(ms, key, obj, fail, id) ==
    LET op == SyncOp(obj, fail)
    IN  CASE op = "error" -> [ms |-> ms, err |-> TRUE]
          [] op = "stopByKey" -> [ms |-> StopCaptureByKey(ms, key), err |-> FALSE]
          [] op = "skip" -> [ms |-> ms, err |-> FALSE]
          [] op = "sync" -> [ms |-> SyncCapture(ms, obj, id),
                             err |-> SyncCaptureErr(ms, obj)]

\* ShouldRequeue with the comparison off by one
ShouldRequeueInclusive(n) == n <= MaxRetries

\* c.queue.NumRequeues(key) < 5
ShouldRequeue(n) == n < MaxRetries

\* what handleErr does to the key: "forget", "requeue" or "drop"
handleErr(err, n) ==
    IF ~err THEN "forget"
    ELSE IF ShouldRequeue(n) THEN "requeue"
    ELSE "drop"

----------------------------------------------------------------------------
(* runTcpdump: the steps up to cmd.Run starting the child *)

\* how far the start gets, for the snapshot the goroutine was given
StartOutcome(pod, found, cancelled) ==
    IF pod.cs = "none" THEN "noStatus"
    ELSE IF pod.cs = "bad" THEN "badId"
    ELSE IF ~found THEN "noPid"
    ELSE IF cancelled THEN "ctxDone"
    ELSE "spawned"

\* the failure paths that run delete(cm.captures, key)
ReleasesEntry(outcome) == outcome \in {"noStatus", "noPid"}

----------------------------------------------------------------------------
(* workqueue, as the code uses it *)

\* queue.Add(key)
QueueAdd(k) ==
    IF k \in dirty
    THEN UNCHANGED <<queue, dirty>>
    ELSE /\ dirty' = dirty \cup {k}
         /\ queue' = IF k \in processing THEN queue ELSE Append(queue, k)

\* the state after NewController, with b informer events to come
InitWith(b) ==
    /\ index = [k \in Keys |-> Absent]
    /\ queue = <<>>
    /\ dirty = {}
    /\ processing = {}
    /\ waiting = {}
    /\ requeues = [k \in Keys |-> 0]
    /\ wkey = NoKey
    /\ captures = [k \in Keys |-> 0]
    /\ insts = [i \in Ids |-> NoInst]
    /\ files = [p \in Paths |-> 0]
    /\ nextUid = 1
    /\ budget = b
    /\ last = NoLast
    /\ stopped = FALSE

Init == InitWith(MaxEvents)

----------------------------------------------------------------------------
(* informer events: the cache is updated, then the handler of main.go runs *)

Deliver(k, obj) ==
    /\ budget > 0
    /\ budget' = budget - 1
    /\ index' = [index EXCEPT ![k] = obj]
    /\ QueueAdd(k)
    /\ UNCHANGED <<processing, waiting, requeues, wkey, captures, insts,
                   files, last, stopped>>

\* AddFunc
PodAdd(k, ann, cs) ==
    /\ index[k].kind = "none"
    /\ nextUid' = nextUid + 1
    /\ Deliver(k, Pod(k, nextUid, ann, FALSE, cs))

\* UpdateFunc (a resync delivers an unchanged object). A deletion marker is
\* never taken back, and the container status only moves forward.
PodUpdate(k, ann, del, cs) ==
    /\ index[k].kind = "pod"
    /\ index[k].del => del
    /\ StatusRank(index[k].cs) <= StatusRank(cs)
    /\ UNCHANGED nextUid
    /\ Deliver(k, Pod(k, index[k].uid, ann, del, cs))

\* DeleteFunc
PodDelete(k) ==
    /\ index[k].kind = "pod"
    /\ UNCHANGED nextUid
    /\ Deliver(k, Absent)

----------------------------------------------------------------------------
(* the worker: processNextItem *)

\* Get as a second worker would call it, while a key is in progress
GetWhileBusy ==
    /\ queue /= <<>>
    /\ wkey' = Head(queue)
    /\ queue' = Tail(queue)
    /\ processing' = processing \cup {Head(queue)}
    /\ dirty' = dirty \ {Head(queue)}
    /\ UNCHANGED <<index, waiting, requeues, captures, insts, files,
                   nextUid, budget, last, stopped>>

\* key, quit := c.queue.Get()
Get ==
    /\ wkey = NoKey
    /\ queue /= <<>>
    /\ wkey' = Head(queue)
    /\ queue' = Tail(queue)
    /\ processing' = processing \cup {Head(queue)}
    /\ dirty' = dirty \ {Head(queue)}
    /\ UNCHANGED <<index, waiting, requeues, captures, insts, files,
                   nextUid, budget, last, stopped>>

\* err := c.syncHandler(key); c.handleErr(err, key); c.queue.Done(key)
ReconcileWith(fail) ==
    /\ wkey /= NoKey
    /\ LET obj == index[wkey]
           r == syncHandler(Manager(captures, insts, files), wkey, obj, fail,
                            FreshId)
           act == handleErr(r.err, requeues[wkey])
       IN  /\ captures' = r.ms.captures
           /\ insts' = r.ms.insts
           /\ files' = r.ms.files
           /\ requeues' = [requeues EXCEPT ![wkey] =
                              IF act = "requeue" THEN @ + 1 ELSE 0]
           /\ waiting' = IF act = "requeue" THEN waiting \cup {wkey}
                         ELSE waiting
           /\ last' = [key |-> wkey, op |-> SyncOp(obj, fail), err |-> r.err,
                       hit |-> captures[wkey] /= 0]
    /\ processing' = processing \ {wkey}
    /\ queue' = IF wkey \in dirty THEN Append(queue, wkey) ELSE queue
    /\ wkey' = NoKey
    /\ UNCHANGED <<index, dirty, nextUid, budget, stopped>>

Reconcile == ReconcileWith(FALSE)

\* the indexer's GetByKey returns an error
ReconcileFail == ReconcileWith(TRUE)

\* the rate limiter's delay of AddRateLimited is over: queue.Add(key)
DelayedAdd(k) ==
    /\ k \in waiting
    /\ waiting' = waiting \ {k}
    /\ QueueAdd(k)
    /\ UNCHANGED <<index, processing, requeues, wkey, captures, insts,
                   files, nextUid, budget, last, stopped>>

----------------------------------------------------------------------------
(* the detached task of one capture: runTcpdump, and its child process *)

\* found: whether findPidByContainerID finds the container in /proc
TaskStart(i, found) ==
    /\ insts[i].pc = "start"
    /\ LET t == insts[i]
           out == StartOutcome(t.pod, found, t.cancelled)
       IN  /\ captures' = IF ReleasesEntry(out)
                          THEN [captures EXCEPT ![t.key] = 0]
                          ELSE captures
           /\ insts' = [insts EXCEPT ![i] =
                           IF out = "spawned"
                           THEN [t EXCEPT !.pc = "running", !.child = "alive",
                                          !.out = out]
                           ELSE [t EXCEPT !.pc = "done", !.pod = Absent,
                                          !.out = out]]
    /\ UNCHANGED <<index, queue, dirty, processing, waiting, requeues,
                   wkey, files, nextUid, budget, last, stopped>>

\* tcpdump opens (creates or truncates) its output file
ChildWrite(i) ==
    /\ insts[i].child = "alive"
    /\ files' = [files EXCEPT ![PcapFile(insts[i].pod.name)] = i]
    /\ UNCHANGED <<index, queue, dirty, processing, waiting, requeues,
                   wkey, captures, insts, nextUid, budget, last, stopped>>

\* exec.CommandContext kills the child once ctx is done
ChildKill(i) ==
    /\ insts[i].child = "alive"
    /\ insts[i].cancelled
    /\ insts' = [insts EXCEPT ![i].child = "dead"]
    /\ UNCHANGED <<index, queue, dirty, processing, waiting, requeues,
                   wkey, captures, files, nextUid, budget, last, stopped>>

\* the child exits on its own
ChildExit(i) ==
    /\ insts[i].child = "alive"
    /\ ~insts[i].cancelled
    /\ insts' = [insts EXCEPT ![i].child = "dead"]
    /\ UNCHANGED <<index, queue, dirty, processing, waiting, requeues,
                   wkey, captures, files, nextUid, budget, last, stopped>>

\* cmd.Run returns; the task logs and ends without touching the table
TaskWait(i) ==
    /\ insts[i].pc = "running"
    /\ insts[i].child = "dead"
    /\ insts' = [insts EXCEPT ![i].pc = "done", ![i].pod = Absent]
    /\ UNCHANGED <<index, queue, dirty, processing, waiting, requeues,
                   wkey, captures, files, nextUid, budget, last, stopped>>

----------------------------------------------------------------------------

Environment ==
    \/ \E k \in Keys, ann \in BOOLEAN, cs \in ContainerStates : PodAdd(k, ann, cs)
    \/ \E k \in Keys, ann \in BOOLEAN, del \in BOOLEAN, cs \in ContainerStates :
          PodUpdate(k, ann, del, cs)
    \/ \E k \in Keys : PodDelete(k)

Tasks ==
    \/ \E i \in Ids, found \in BOOLEAN : TaskStart(i, found)
    \/ \E i \in Ids : ChildWrite(i)
    \/ \E i \in Ids : ChildKill(i)
    \/ \E i \in Ids : ChildExit(i)
    \/ \E i \in Ids : TaskWait(i)

Next == Environment \/ Get \/ Reconcile \/ Tasks

Spec == Init /\ [][Next]_vars

\* Spec with one more informer event
InitDeep == InitWith(MaxEvents + 1)

SpecDeep == InitDeep /\ [][Next]_vars

\* Spec with an indexer whose GetByKey may fail. The informer's initial list
\* has delivered the annotated pod a/app: AddFunc has queued its key.
InitErr ==
    /\ index = [k \in Keys |-> IF k = <<"a", "app">>
                               THEN Pod(k, 1, TRUE, FALSE, "ok") ELSE Absent]
    /\ queue = << <<"a", "app">> >>
    /\ dirty = { <<"a", "app">> }
    /\ processing = {}
    /\ waiting = {}
    /\ requeues = [k \in Keys |-> 0]
    /\ wkey = NoKey
    /\ captures = [k \in Keys |-> 0]
    /\ insts = [i \in Ids |-> NoInst]
    /\ files = [p \in Paths |-> 0]
    /\ nextUid = 2
    /\ budget = MaxErrEvents
    /\ last = NoLast
    /\ stopped = FALSE

NextErr == Next \/ ReconcileFail \/ \E k \in Keys : DelayedAdd(k)

SpecErr == InitErr /\ [][NextErr]_vars

\* close(stopCh): Run passes "<-stopCh", logs and returns, and main returns
\* with it. Neither of them touches cm.captures or a cancel handle.
Shutdown ==
    /\ ~stopped
    /\ stopped' = TRUE
    /\ UNCHANGED <<index, queue, dirty, processing, waiting, requeues, wkey,
                   captures, insts, files, nextUid, budget, last>>

\* Spec with the stop signal: the informer, the worker and the tasks run
\* until the agent has stopped.
NextStop == (~stopped /\ Next) \/ Shutdown

SpecStop == Init /\ [][NextStop]_vars

----------------------------------------------------------------------------
(* Properties *)

IsPod(k) == index[k].kind = "pod"

\* the snapshot asks for a capture: annotated and not being deleted
WantsCapture(k) == IsPod(k) /\ index[k].ann /\ ~index[k].del

\* the queue is empty, the worker is blocked in Get and every task is past
\* its start-up steps
Quiescent ==
    /\ wkey = NoKey
    /\ queue = <<>>
    /\ waiting = {}
    /\ \A i \in Ids : insts[i].pc /= "start"

\* the step is the worker's reconcile of wkey
ReconcileStep == wkey /= NoKey /\ wkey' = NoKey

\* children of k that were launched and neither cancelled nor exited
LiveChildren(k) ==
    {i \in Ids : /\ insts[i].key = k
                 /\ insts[i].child = "alive"
                 /\ ~insts[i].cancelled}

\* C1: once the pipeline is quiescent, the table has an entry for K iff the
\* last observed snapshot of K is present, annotated and has no deletion
\* marker.
C1_TableMatchesLastSnapshot ==
    Quiescent => \A k \in Keys : (captures[k] /= 0) <=> WantsCapture(k)

\* C2: at most one capture child that was launched and is neither cancelled
\* nor exited exists per identity.
C2_OneChildPerIdentity ==
    \A k \in Keys : Cardinality(LiveChildren(k)) <= 1

\* C3: captures of workloads with the same name in different namespaces
\* write to distinct artifact paths, and a stop of one capture leaves the
\* artifact files written by the captures of other identities as they are.
C3_NamespacesDoNotCollide ==
    [][ /\ \A i, j \in Ids :
             ( /\ insts[i].child = "alive"
               /\ insts[j].child = "alive"
               /\ insts[i].key /= insts[j].key )
             => PcapFile(insts[i].pod.name) /= PcapFile(insts[j].pod.name)
        /\ \A k \in Keys :
             (captures[k] /= 0 /\ captures'[k] = 0 /\ ReconcileStep)
             => \A p \in Paths :
                  (files[p] /= 0 /\ insts[files[p]].key /= k)
                  => files'[p] = files[p] ]_vars

\* C4: once a capture has been stopped and its cancelled child has
\* completed, no artifact file written by that capture remains.
C4_NoArtifactAfterStop ==
    \A i \in Ids :
        (insts[i].cancelled /\ insts[i].pc = "done")
        => \A p \in Paths : files[p] /= i

\* C5: the reconcile of a present, annotated snapshot without deletion marker
\* and with an empty container status list returns an error, and handleErr
\* requeues the key with backoff.
C5_EmptyStatusIsRequeued ==
    [][ ( /\ ReconcileStep
          /\ WantsCapture(wkey)
          /\ index[wkey].cs = "none" )
        => ( /\ last'.err
             /\ wkey \in waiting'
             /\ requeues'[wkey] = requeues[wkey] + 1 ) ]_vars

\* C6: a workload annotated while its container status list was empty, whose
\* status has appeared since and whose PID lookups all succeed, has a started
\* capture in the table once the pipeline is quiescent.
C6_CaptureStartsOnceStatusAppears ==
    \A k \in Keys :
        ( /\ Quiescent
          /\ WantsCapture(k)
          /\ index[k].cs = "ok"
          /\ \E i \in Ids : insts[i].key = k /\ insts[i].out = "noStatus"
          /\ \A i \in Ids : insts[i].key = k => insts[i].out /= "noPid" )
        => ( /\ captures[k] /= 0
             /\ insts[captures[k]].out = "spawned" )

\* C7: on a reconcile error the key is re-added with backoff only while its
\* requeue count is below 5 and is otherwise dropped and forgotten, on
\* success it is forgotten, and no key's retry count ever exceeds 5.
C7_RetryCountBounded ==
    [][ /\ \A k \in Keys : requeues'[k] <= MaxRetries
        /\ ReconcileStep =>
             LET n == requeues[wkey]
             IN  /\ (last'.err /\ n < MaxRetries)
                     => (requeues'[wkey] = n + 1 /\ wkey \in waiting')
                 /\ (last'.err /\ n >= MaxRetries)
                     => (requeues'[wkey] = 0 /\ waiting' = waiting)
                 /\ ~last'.err
                     => (requeues'[wkey] = 0 /\ waiting' = waiting) ]_vars

\* a key was dropped: its reconcile failed and it was forgotten
C7_Witness ==
    /\ last.key /= NoKey
    /\ last.err
    /\ wkey = NoKey
    /\ requeues[last.key] = 0
    /\ last.key \notin waiting

\* C8: a sync whose snapshot asks for a capture under a UID other than the
\* one the table entry was created for cancels the old capture and starts
\* one for the new UID.
C8_UidChangeReplacesCapture ==
    [][ ( /\ ReconcileStep
          /\ WantsCapture(wkey)
          /\ index[wkey].cs = "ok"
          /\ captures[wkey] /= 0
          /\ insts[captures[wkey]].pod.kind = "pod"
          /\ insts[captures[wkey]].pod.uid /= index[wkey].uid )
        => ( /\ insts'[captures[wkey]].cancelled
             /\ captures'[wkey] \notin {0, captures[wkey]}
             /\ insts'[captures'[wkey]].pod.uid = index[wkey].uid ) ]_vars

C10_SecondReconcileIsNoOp ==
    wkey /= NoKey =>
        LET once == syncHandler(Manager(captures, insts, files), wkey,
                                index[wkey], FALSE, FreshId)
            twice == syncHandler(once.ms, wkey, index[wkey], FALSE,
                                 FreshId + 1)
        IN  /\ twice.ms.captures = once.ms.captures
            /\ twice.ms.insts = once.ms.insts

\* C11: StopCaptureByKey on an identity without a table entry is a no-op: the
\* table and every cancel handle are unchanged, no artifact file is removed
\* and no error is returned.
C11_StopWithoutEntryIsNoOp ==
    [][ ( /\ ReconcileStep
          /\ SyncOp(index[wkey], FALSE) = "stopByKey"
          /\ captures[wkey] = 0 )
        => ( /\ captures' = captures
             /\ insts' = insts
             /\ files' = files
             /\ ~last'.err ) ]_vars

\* StopCaptureByKey found no entry for its key while a file matching the
\* key's glob pattern was on disk, and the file is still there
C11_Witness ==
    /\ last.op = "stopByKey"
    /\ ~last.hit
    /\ wkey = NoKey
    /\ \E p \in Paths : /\ GlobMatches(p, PodNameOfKey(last.key))
                         /\ files[p] /= 0
                         /\ insts[files[p]].child = "alive"
                         /\ ~insts[files[p]].cancelled

\* C12: reconciles of one identity are serialized: a key that is in progress
\* is held by the one worker and is not in the ready queue, so it cannot be
\* handed out again before Done, whatever events or delayed re-adds arrive.
C12_ReconcilesSerialized ==
    /\ \A k \in Keys :
          k \in processing
          => ( /\ wkey = k
               /\ \A n \in 1..Len(queue) : queue[n] /= k )
    /\ \A m, n \in 1..Len(queue) : m /= n => queue[m] /= queue[n]
    /\ wkey /= NoKey => wkey \in processing

\* an event for the key arrived while the worker was reconciling it again
\* after a backoff
C12_Witness ==
    \E k \in Keys :
        /\ wkey = k
        /\ k \in dirty
        /\ requeues[k] > 0

\* the step is the start-up of task i, and it ends with outcome o
StartStep(i, o) == insts[i].pc = "start" /\ insts'[i].out = o

\* C13: the reconcile of a present snapshot with a deletion marker leaves no
\* table entry for its identity, whether or not it is annotated and whether
\* or not a capture was running.
C13_DeletingPodHasNoEntry ==
    [][ ( /\ ReconcileStep
          /\ IsPod(wkey)
          /\ index[wkey].del )
        => captures'[wkey] = 0 ]_vars

\* C14: once the task of a capture whose child exited on its own has ended,
\* the table no longer holds that capture's entry.
C14_SelfExitClearsEntry ==
    \A i \in Ids :
        ( /\ insts[i].pc = "done"
          /\ insts[i].out = "spawned"
          /\ ~insts[i].cancelled )
        => captures[insts[i].key] /= i

\* C15: a start that fails on a container ID without "://" releases its
\* reservation: the table does not hold the entry of that start afterwards.
C15_BadContainerIdReleasesEntry ==
    \A i \in Ids :
        insts[i].out = "badId" => captures[insts[i].key] /= i

\* C16: a start whose PID lookup finds nothing releases its reservation and
\* has the key requeued with backoff.
C16_PidNotFoundIsRequeued ==
    [][ \A i \in Ids :
          StartStep(i, "noPid")
          => ( /\ captures'[insts[i].key] /= i
               /\ insts[i].key \in waiting'
               /\ requeues'[insts[i].key] > 0 ) ]_vars

\* C17: a task that ends leaves every table entry that is not its own as it
\* is.
C17_TaskClearsOnlyOwnEntry ==
    [][ \A i \in Ids :
          (insts[i].pc /= "done" /\ insts'[i].pc = "done")
          => \A k \in Keys : captures[k] /= i => captures'[k] = captures[k]
      ]_vars

\* C18: no reconcile makes a blocking call (a /proc scan, a glob or unlink in
\* the capture directory, a child spawn or wait) while it holds cm.mu.
C18_MutexOnlyForTableOps ==
    [][ ReconcileStep
        => syncHandler(Manager(captures, insts, files), wkey, index[wkey],
                       FALSE, FreshId).ms.underLock = {} ]_vars

\* C19: once the agent has stopped, the cancel handle of every entry left
\* in the table has been triggered.
C19_ShutdownCancelsAll ==
    stopped => \A k \in Keys :
                  captures[k] /= 0 => insts[captures[k]].cancelled

\* C20: every running child whose cancel handle has not been triggered is
\* the capture its identity's table entry holds.
C20_NoOrphanedChild ==
    \A i \in Ids :
        (insts[i].child = "alive" /\ ~insts[i].cancelled)
        => captures[insts[i].key] = i

====
